---- MODULE Spec2Model ----
(***************************************************************************)
(* A model of the storybook generation pipeline of cuentos.                *)
(*                                                                         *)
(* One behaviour exercises one handler, chosen by Init (endpoint):         *)
(*   "pipeline"  the resumable story-and-image handler (unnamed/part_010), *)
(*               one run after another or two runs at once against one     *)
(*               story folder and its generation_progress.json;            *)
(*   "imageGenerate", "character"                                          *)
(*               the image handlers with an attempt loop per image         *)
(*               (api/image/generate and api/image/character);             *)
(*   "batch"     processImagesWithRateLimiting of api/image/generate;      *)
(*   "story"     the story handler (api/generate-story) and its image      *)
(*               requests;                                                 *)
(*   "storyText" the story text handler (api/story/generate);              *)
(*   "pdf"       generatePDF, the assembly of a story's PDF document;      *)
(*   "status"    the status stream (GET of api/save-story);                *)
(*   "folder"    the derivations of a story's folder name from its title;  *)
(*   "retry"     a call of one of the retry helpers;                       *)
(*   "prompt"    a prompt on its way to the image model: trimmed, then     *)
(*               sanitized;                                                *)
(*   "trim"      trimPromptToLimit of api/image/generate (the same text    *)
(*               in unnamed/part_007);                                     *)
(*   "sanitize"  sanitizePrompt of api/image/generate and sanitizeContent  *)
(*               of api/story/generate.                                    *)
(* Strings of the source that only travel (titles, prompts, URLs) are      *)
(* left out; page images are named by their page number, the cover by      *)
(* COVER.                                                                  *)
(***************************************************************************)
EXTENDS Integers, Sequences, FiniteSets, TLC

VARIABLES
    endpoint,    \* the handler this behaviour exercises
    total,       \* storyData.pages.length of the requests (pipeline)
    concurrent,  \* whether two pipeline runs may overlap
    disk,        \* generation_progress.json of the story folder
    saved,       \* image files written to the story folder
    started,     \* pipeline runs started so far
    writeFaults, \* failed writes of the progress file so far
    lastFull,    \* the last finished run generated the cover and every page
    discarded,   \* some rewrite dropped a page the file listed as generated
    run,         \* per handler invocation: its locals and its position
    ig,          \* the locals and position of an image handler's request
    bt,          \* a call of processImagesWithRateLimiting
    st,          \* a request of the story handler
    tp,          \* a call of trimPromptToLimit
    sz,          \* a text put through a sanitizer, and through it again
    sg,          \* a request of the story text handler
    pdf,         \* a call of generatePDF
    sse,         \* a status stream
    fd,          \* a title and the folder names derived from it
    pm,          \* a prompt trimmed and sanitized for the image model
    rh           \* a call of a retry helper

pipelineVars == <<total, concurrent, disk, saved, started, writeFaults,
                  lastFull, discarded, run>>

\* The variables of the handlers other than the pipeline.
others == <<endpoint, ig, bt, st, tp, sz, sg, pdf, sse, fd, pm, rh>>

vars ==
    <<endpoint, pipelineVars, ig, bt, st, tp, sz, sg, pdf, sse, fd, pm,
      rh>>

-----------------------------------------------------------------------------
(* Bounds of the exploration *)

MaxPages == 6
MaxPagesConcurrent == 2
MaxRuns == 2
MaxWriteFaults == 1
MaxBatchPages == 11
MaxStoryPages == 2
MaxPromptLen == 9
MaxBudget == 8
MaxPieces == 3
MaxModelPages == 9
MaxPdfPages == 3
MaxTitleLen == 3

(* Program constants *)

BATCH_SIZE == 5
GEN_MAX_RETRIES == 2
DOWNLOAD_MAX_RETRIES == 3
MAX_GENERATION_ATTEMPTS == 2
MAX_STORY_PAGES == 1
FETCH_MAX_RETRIES == 3
STORY_PAGE_COUNT == 8
COVER == 0

Runs == {1, 2}

\* The vendor error classes the handlers log (content policy, rate limit,
\* authentication, server error, timeout).
ErrKinds == {"content_policy", "rate_limit", "auth", "server", "timeout"}
Outcomes == {"ok"} \cup ErrKinds

-----------------------------------------------------------------------------
(* Helpers *)

Includes(s, x) == \E k \in 1..Len(s) : s[k] = x

SetOf(s) == {s[k] : k \in 1..Len(s)}

-----------------------------------------------------------------------------
(* The progress record: part_010 *)

\* checkExistingProgress's default when the file cannot be read.
DefaultProgress ==
    [coverGenerated |-> FALSE, pagesGenerated |-> <<>>, failedPages |-> <<>>]

NoFile ==
    [present |-> FALSE, coverGenerated |-> FALSE,
     pagesGenerated |-> <<>>, failedPages |-> <<>>]

\* checkExistingProgress: the parsed file, or the default.
CheckExistingProgress(d) ==
    IF d.present
    THEN [coverGenerated |-> d.coverGenerated,
          pagesGenerated |-> d.pagesGenerated,
          failedPages |-> d.failedPages]
    ELSE DefaultProgress

\* What JSON.stringify({...progress}) leaves in the file: the fields of the
\* object handed in.  generationResults has no coverGenerated field, so a
\* later reader finds it undefined, which `!existingProgress.coverGenerated`
\* treats as false.
FileOf(progress) ==
    [present |-> TRUE,
     coverGenerated |->
        IF "coverGenerated" \in DOMAIN progress
        THEN progress.coverGenerated ELSE FALSE,
     pagesGenerated |-> progress.pagesGenerated,
     failedPages |-> progress.failedPages]

\* saveGenerationProgress: overwrite the file with the caller's object; a
\* write error is logged and swallowed, the file stays as it was.
SaveGenerationProgress(d, progress, writeOk) ==
    IF writeOk THEN FileOf(progress) ELSE d

\* A generationResults that takes nothing over from existingProgress.
CopyNothing(existing, n) ==
    [total |-> n, successful |-> 0, failed |-> 0,
     failedPages |-> <<>>, pagesGenerated |-> <<>>]

\* generationResults as first built from existingProgress.
GenerationResults(existing, n) ==
    [total |-> n,
     successful |-> Len(existing.pagesGenerated),
     failed |-> 0,
     failedPages |-> existing.failedPages,
     pagesGenerated |-> existing.pagesGenerated]

\* The 0-based indexes of all pages, generated or not.
AllPageIndexes(gr) == [k \in 1..gr.total |-> k - 1]

\* pagesToGenerate: the 0-based indexes of the pages not yet generated.
PagesToGenerate(gr) ==
    SelectSeq([k \in 1..gr.total |-> k - 1],
              LAMBDA idx : ~Includes(gr.pagesGenerated, idx + 1))

-----------------------------------------------------------------------------
(* A run of the handler: part_010 POST *)

NoResponse ==
    [status |-> 0, pageImages |-> <<>>, allPagesGenerated |-> FALSE]

\* phase: "gen"      inside generateImageWithRetry (attempt: calls made),
\*        "dl"       inside downloadImageWithRetry (attempt: calls made),
\*        "got"      both helpers returned: the rest of the try block is due,
\*        "genThrew" generateImageWithRetry threw after attempt calls,
\*        "dlThrew"  downloadImageWithRetry threw after attempt calls:
\*                   the catch block is due.
\* retried lists the pages the second pass has requested.
IdleRun ==
    [pc |-> "idle", phase |-> "gen", attempt |-> 0,
     existingProgress |-> DefaultProgress,
     generationResults |-> GenerationResults(DefaultProgress, 0),
     pagesToGenerate |-> <<>>, i |-> 0, pauses |-> 0,
     pageUrls |-> <<>>, response |-> NoResponse,
     requested |-> {}, startSets |-> <<{}, {}>>,
     retried |-> <<>>, afterFull |-> FALSE, coverDone |-> FALSE,
     saveOk |-> TRUE, allSaved |-> TRUE, omits |-> FALSE]

Active(r) == run[r].pc \in {"cover", "pages", "retry"}

\* The page number the loop is at: pageNum = pagesToGenerate[i] + 1.
PageNum(r) == run[r].pagesToGenerate[run[r].i + 1] + 1

\* The image the run is working on.
Target(r) == IF run[r].pc = "cover" THEN COVER ELSE PageNum(r)

\* The rate-limit pause at the head of the page loop:
\* i > 0 && i % BATCH_SIZE === 0.
\* A page loop without its pause.
NeverPause(r) == FALSE

PauseDue(r) ==
    /\ run[r].pc = "pages"
    /\ run[r].phase = "gen"
    /\ run[r].attempt = 0
    /\ run[r].i < Len(run[r].pagesToGenerate)
    /\ run[r].i > 0
    /\ run[r].i % BATCH_SIZE = 0
    /\ run[r].pauses < run[r].i \div BATCH_SIZE

\* The run is at a point where it calls the image model.
AtGenerate(r) ==
    /\ run[r].phase = "gen"
    /\ \/ run[r].pc = "cover"
       \/ /\ run[r].pc = "pages"
          /\ run[r].i < Len(run[r].pagesToGenerate)
          /\ ~PauseDue(r)

\* The pages a rewrite drops from the file's list of generated pages.
Dropped(d, dNew) == SetOf(d.pagesGenerated) \ SetOf(dNew.pagesGenerated)

\* Entering the page loop: generationResults and pagesToGenerate.
EnterPages(rec, existing) ==
    LET gr == GenerationResults(existing, total)
    IN  [rec EXCEPT !.pc = "pages", !.phase = "gen", !.attempt = 0,
                    !.existingProgress = existing,
                    !.generationResults = gr,
                    !.pagesToGenerate = PagesToGenerate(gr),
                    !.i = 0, !.pageUrls = <<>>]

\* What the request body can carry as pages: nothing, something that is
\* not an array, an empty array, or the story's pages.
PagesFields == {"absent", "notArray", "empty", "pages"}

\* The validation of the request: the names of the parameters missing.
MissingParams(title, pages, illustrationStyle) ==
    {f \in {"title"} : ~title}
    \cup {f \in {"pages"} : pages # "pages"}
    \cup {f \in {"illustrationStyle"} : ~illustrationStyle}

\* Request parsing, validation, mkdir, the character profile call and the
\* story.json write, then checkExistingProgress and the branch on
\* existingProgress.coverGenerated.  omits: the body lacks title, pages or
\* illustrationStyle.
StartRun(r) ==
    /\ endpoint = "pipeline"
    /\ started < MaxRuns
    /\ run[r].pc \in {"idle", "done"}
    /\ concurrent \/ (r = 1 /\ \A q \in Runs : ~Active(q))
    /\ started' = started + 1
    /\ \E setup \in {"ok", "error"}, title \in BOOLEAN,
          pages \in PagesFields, illustrationStyle \in BOOLEAN :
        LET existing == CheckExistingProgress(disk)
            missingParams == MissingParams(title, pages, illustrationStyle)
            fresh == [IdleRun EXCEPT
                        !.omits = (~title \/ pages = "absent"
                                        \/ ~illustrationStyle),
                        !.afterFull = (lastFull /\ ~concurrent),
                        !.existingProgress = existing,
                        !.startSets = <<SetOf(disk.pagesGenerated),
                                        SetOf(disk.failedPages)>>]
        IN  run' = [run EXCEPT ![r] =
                CASE missingParams # {} ->
                        [fresh EXCEPT !.pc = "done", !.response.status = 400]
                  [] missingParams = {} /\ setup = "error" ->
                        [fresh EXCEPT !.pc = "done", !.response.status = 500]
                  [] OTHER ->
                        IF existing.coverGenerated
                        THEN EnterPages(fresh, existing)
                        ELSE [fresh EXCEPT !.pc = "cover"]]
    /\ lastFull' = FALSE
    /\ UNCHANGED <<others, total, concurrent, disk, saved, writeFaults,
                   discarded>>

\* A helper that gives up at its first failed call.
GiveUpAtOnce(outcome, n, maxRetries) ==
    IF outcome = "ok" THEN "dl" ELSE "genThrew"

\* generateImageWithRetry, one turn of its loop: a call of
\* openai.images.generate; on an error another turn while
\* attempt < maxRetries, else the error is thrown.
GenerateTurn(outcome, n, maxRetries) ==
    IF outcome = "ok" THEN "dl"
    ELSE IF n < maxRetries THEN "gen" ELSE "genThrew"

GenerateAttempt(r) ==
    /\ endpoint = "pipeline"
    /\ AtGenerate(r)
    /\ \E outcome \in Outcomes :
        LET n == run[r].attempt + 1
            next == GenerateTurn(outcome, n, GEN_MAX_RETRIES)
        IN  run' = [run EXCEPT ![r] =
                [@ EXCEPT !.requested = @ \cup {Target(r)},
                          !.phase = next,
                          !.attempt = IF next = "dl" THEN 0 ELSE n]]
    /\ UNCHANGED <<others, total, concurrent, disk, saved, started,
                   writeFaults, lastFull, discarded>>

\* downloadImageWithRetry, one turn of its loop: fetch and fs.writeFile of
\* the image; on an error another turn while attempt < maxRetries.
DownloadTurn(ok, n, maxRetries) ==
    IF ok THEN "got"
    ELSE IF n < maxRetries THEN "dl" ELSE "dlThrew"

DownloadAttempt(r) ==
    /\ endpoint = "pipeline"
    /\ run[r].pc \in {"cover", "pages"}
    /\ run[r].phase = "dl"
    /\ \E ok \in BOOLEAN :
        LET n == run[r].attempt + 1
            next == DownloadTurn(ok, n, DOWNLOAD_MAX_RETRIES)
        IN  /\ run' = [run EXCEPT ![r] =
                    [@ EXCEPT !.phase = next,
                              !.attempt = IF next = "got" THEN 0 ELSE n]]
            /\ saved' = IF ok THEN saved \cup {Target(r)} ELSE saved
    /\ UNCHANGED <<others, total, concurrent, disk, started, writeFaults,
                   lastFull, discarded>>

\* A rewrite of the progress file by run r with its object progress, rec
\* being what the run becomes.
Rewrite(r, rec, progress) ==
    \E writeOk \in BOOLEAN :
        LET d == SaveGenerationProgress(disk, progress, writeOk)
        IN  /\ writeOk \/ writeFaults < MaxWriteFaults
            /\ writeFaults' = IF writeOk THEN writeFaults
                                         ELSE writeFaults + 1
            /\ disk' = d
            /\ discarded' = (discarded \/ Dropped(disk, d) # {})
            /\ run' = [run EXCEPT ![r] =
                    [rec EXCEPT !.saveOk = writeOk,
                                !.allSaved = @ /\ writeOk]]

\* The cover's try block after both helpers returned:
\* existingProgress.coverGenerated = true, saveGenerationProgress, and on to
\* the page loop.
CoverSucceeded(r) ==
    /\ endpoint = "pipeline"
    /\ run[r].pc = "cover"
    /\ run[r].phase = "got"
    /\ LET existing == [run[r].existingProgress EXCEPT
                            !.coverGenerated = TRUE]
       IN  Rewrite(r, EnterPages([run[r] EXCEPT !.coverDone = TRUE],
                                 existing),
                   existing)
    /\ UNCHANGED <<others, total, concurrent, saved, started, lastFull>>

\* The cover's catch block: a 500 response.
CoverFailed(r) ==
    /\ endpoint = "pipeline"
    /\ run[r].pc = "cover"
    /\ run[r].phase \in {"genThrew", "dlThrew"}
    /\ run' = [run EXCEPT ![r] =
            [@ EXCEPT !.pc = "done", !.response.status = 500]]
    /\ UNCHANGED <<others, total, concurrent, disk, saved, started,
                   writeFaults, lastFull, discarded>>

\* The rate-limit pause between batches of the page loop.
RateLimitPause(r) ==
    /\ endpoint = "pipeline"
    /\ PauseDue(r)
    /\ run' = [run EXCEPT ![r] = [@ EXCEPT !.pauses = @ + 1]]
    /\ UNCHANGED <<others, total, concurrent, disk, saved, started,
                   writeFaults, lastFull, discarded>>

\* What the success branch of a page does to generationResults.
ResultsAfterSuccess(gr, pageNum) ==
    [gr EXCEPT !.successful = @ + 1, !.pagesGenerated = Append(@, pageNum)]

\* A catch block that counts the failure without listing the page.
FailedUnlisted(gr, pageNum) ==
    [gr EXCEPT !.failed = @ + 1]

\* What the catch block of a page does to generationResults.
ResultsAfterFailure(gr, pageNum) ==
    [gr EXCEPT !.failed = @ + 1, !.failedPages = Append(@, pageNum)]

\* A page's try block after both helpers returned: pageUrls.push, the
\* counters, saveGenerationProgress; then the next turn of the loop.
PageSucceeded(r) ==
    /\ endpoint = "pipeline"
    /\ run[r].pc = "pages"
    /\ run[r].phase = "got"
    /\ LET p  == PageNum(r)
           gr == ResultsAfterSuccess(run[r].generationResults, p)
       IN  Rewrite(r, [run[r] EXCEPT !.generationResults = gr,
                                     !.pageUrls = Append(@, p),
                                     !.i = @ + 1, !.phase = "gen",
                                     !.attempt = 0],
                   gr)
    /\ UNCHANGED <<others, total, concurrent, saved, started, lastFull>>

\* A page's catch block: the counters, saveGenerationProgress; then the next
\* turn of the loop.
PageFailed(r) ==
    /\ endpoint = "pipeline"
    /\ run[r].pc = "pages"
    /\ run[r].phase \in {"genThrew", "dlThrew"}
    /\ LET p  == PageNum(r)
           gr == ResultsAfterFailure(run[r].generationResults, p)
       IN  Rewrite(r, [run[r] EXCEPT !.generationResults = gr,
                                     !.i = @ + 1, !.phase = "gen",
                                     !.attempt = 0],
                   gr)
    /\ UNCHANGED <<others, total, concurrent, saved, started, lastFull>>

\* pageUrls after the loop: the pages of existingProgress not yet in it.
WithExistingPages(urls, existing) ==
    urls \o SelectSeq(existing.pagesGenerated,
                      LAMBDA p : ~Includes(urls, p))

\* The condition of the second pass.
RetryNeeded(gr) ==
    Len(gr.failedPages) > 0 /\ Len(gr.failedPages) < gr.total

\* pageUrls.sort by page number.
RECURSIVE SortUrls(_)
SortUrls(s) ==
    IF s = <<>> THEN <<>>
    ELSE LET k == CHOOSE j \in 1..Len(s) :
                    \A q \in 1..Len(s) :
                        s[j] < s[q] \/ (s[j] = s[q] /\ j <= q)
         IN  <<s[k]>> \o
             SortUrls([q \in 1..(Len(s) - 1) |->
                            IF q < k THEN s[q] ELSE s[q + 1]])

\* A success response that always reports every page as generated.
AlwaysAllGenerated(gr, urls) ==
    [status |-> 200, pageImages |-> SortUrls(urls),
     allPagesGenerated |-> TRUE]

\* The success response.
SuccessResponse(gr, urls) ==
    [status |-> 200,
     pageImages |-> SortUrls(urls),
     allPagesGenerated |-> (gr.successful = gr.total)]

\* After the page loop: the pages generated earlier join pageUrls; then
\* either the second pass is due or the success response is returned.
FinishMainPass(r) ==
    /\ endpoint = "pipeline"
    /\ run[r].pc = "pages"
    /\ run[r].phase = "gen"
    /\ run[r].i = Len(run[r].pagesToGenerate)
    /\ LET gr   == run[r].generationResults
           urls == WithExistingPages(run[r].pageUrls,
                                     run[r].existingProgress)
       IN  IF RetryNeeded(gr)
           THEN /\ run' = [run EXCEPT ![r] =
                        [@ EXCEPT !.pc = "retry", !.pageUrls = urls]]
                /\ lastFull' = FALSE
           ELSE /\ run' = [run EXCEPT ![r] =
                        [@ EXCEPT !.pc = "done", !.pageUrls = urls,
                                  !.response = SuccessResponse(gr, urls)]]
                /\ lastFull' = /\ run[r].coverDone
                               /\ gr.failed = 0
                               /\ run[r].requested = {COVER} \cup 1..total
                               /\ run[r].allSaved
    /\ UNCHANGED <<others, total, concurrent, disk, saved, started,
                   writeFaults, discarded>>

\* The second pass: after the 65 s wait the first turn of its loop builds
\* retryPrompt from consistentCharacterPrompt, a const of the cover's if
\* block that is not in scope here: a ReferenceError, thrown outside the
\* inner try, which the handler's outer catch turns into a 500 response.
\* No page is requested.
SecondPass(r) ==
    /\ endpoint = "pipeline"
    /\ run[r].pc = "retry"
    /\ run' = [run EXCEPT ![r] =
            [@ EXCEPT !.pc = "done", !.response.status = 500]]
    /\ UNCHANGED <<others, total, concurrent, disk, saved, started,
                   writeFaults, lastFull, discarded>>

-----------------------------------------------------------------------------
(* The image handlers: api/image/generate and api/image/character *)

Images == {"firstPage", "cover", "characterProfile"}

\* The locals of a request: per image the attempts counter of its loop
\* (firstPageGenerationAttempts, coverGenerationAttempts,
\* generationAttempts), whether its URL variable is set, whether its file
\* was written; threw records that an attempt of its loop ended in the
\* catch block.
IdleImageRequest ==
    [pc |-> "idle",
     attempts |-> [img \in Images |-> 0],
     url |-> [img \in Images |-> FALSE],
     path |-> [img \in Images |-> FALSE],
     threw |-> [img \in Images |-> FALSE],
     status |-> 0, warning |-> FALSE]

\* validateImageQuality: a stub that passes every image.
ValidateImageQuality(hasUrl) == [passed |-> TRUE, issues |-> <<>>]

\* One turn of `while (attempts < MAX_GENERATION_ATTEMPTS)`: the counter is
\* incremented and openai.images.generate called.  A response gives the
\* URL and, validation passed, a break; validation failed, the loop goes
\* round again.  An error (a rejected call, or a response without data[0])
\* is logged by the catch block, which breaks.
GenerationLoopTurn(outcome, attempts, maxAttempts) ==
    LET n == attempts + 1
    IN  IF outcome = "ok"
        THEN [attempts |-> n, url |-> TRUE, threw |-> FALSE,
              again |-> ~ValidateImageQuality(TRUE).passed
                            /\ n < maxAttempts]
        ELSE [attempts |-> n, url |-> FALSE, threw |-> TRUE,
              again |-> FALSE]

\* ig after a turn of the loop of image img; the handler goes on at pc
\* after when the loop is over.
AfterTurn(img, turn, after) ==
    [ig EXCEPT !.attempts[img] = turn.attempts,
               !.url[img] = turn.url,
               !.threw[img] = turn.threw,
               !.pc = IF turn.again THEN @ ELSE after]

ImageVarsUnchanged ==
    UNCHANGED <<endpoint, pipelineVars, bt, st, tp, sz, sg, pdf, sse, fd,
                pm, rh>>

\* Both handlers up to their first attempt loop: request.json() and the
\* check of the required fields (400), mkdir (500), the prompts.  In
\* api/image/generate the single, unretried character reference call is part
\* of this step: whatever its outcome the handler proceeds.
ImageRequestStart ==
    /\ endpoint \in {"imageGenerate", "character"}
    /\ ig.pc = "idle"
    /\ \E setup \in {"ok", "missing", "mkdirFailed", "threw"} :
        ig' = IF setup = "ok"
              THEN [ig EXCEPT !.pc = IF endpoint = "character"
                                     THEN "characterProfile"
                                     ELSE "firstPage"]
              ELSE [ig EXCEPT !.pc = "done",
                              !.status = IF setup = "missing"
                                         THEN 400 ELSE 500]
    /\ ImageVarsUnchanged

\* api/image/generate, the first page's loop.
FirstPageAttempt ==
    /\ endpoint = "imageGenerate"
    /\ ig.pc = "firstPage"
    /\ ig.attempts["firstPage"] < MAX_GENERATION_ATTEMPTS
    /\ \E outcome \in Outcomes :
        LET turn == GenerationLoopTurn(outcome, ig.attempts["firstPage"],
                                       MAX_GENERATION_ATTEMPTS)
        IN  ig' = AfterTurn("firstPage", turn,
                            IF turn.url THEN "firstPageDl" ELSE "cover")
    /\ ImageVarsUnchanged

\* The download of the first page's image; when it fails the catch block
\* builds a 500 response, and in doing so reads coverImagePath above its
\* `let`: the ReferenceError reaches the outer catch, a 500 as well.
FirstPageDownload ==
    /\ endpoint = "imageGenerate"
    /\ ig.pc = "firstPageDl"
    /\ \E ok \in BOOLEAN :
        ig' = IF ok
              THEN [ig EXCEPT !.path["firstPage"] = TRUE, !.pc = "cover"]
              ELSE [ig EXCEPT !.pc = "done", !.status = 500]
    /\ ImageVarsUnchanged

\* The cover's loop; without a URL the handler goes straight to its
\* response.
CoverAttempt ==
    /\ endpoint = "imageGenerate"
    /\ ig.pc = "cover"
    /\ ig.attempts["cover"] < MAX_GENERATION_ATTEMPTS
    /\ \E outcome \in Outcomes :
        LET turn == GenerationLoopTurn(outcome, ig.attempts["cover"],
                                       MAX_GENERATION_ATTEMPTS)
        IN  ig' = IF turn.again \/ turn.url
                  THEN AfterTurn("cover", turn, "coverDl")
                  ELSE [AfterTurn("cover", turn, "done")
                            EXCEPT !.status = 200]
    /\ ImageVarsUnchanged

\* The download of the cover: a failure clears coverImagePath and the
\* handler answers as if it had not happened.
CoverDownload ==
    /\ endpoint = "imageGenerate"
    /\ ig.pc = "coverDl"
    /\ \E ok \in BOOLEAN :
        ig' = [ig EXCEPT !.path["cover"] = ok,
                         !.pc = "done", !.status = 200]
    /\ ImageVarsUnchanged

\* The images whose local paths the success response of api/image/generate
\* carries: coverImage is cover.png and pageImages is [page1.png], whatever
\* the locals hold.
ReturnedPaths == {"cover", "firstPage"}

\* api/image/character, the loop; without a URL a 500 "after multiple
\* attempts".
CharacterProfileAttempt ==
    /\ endpoint = "character"
    /\ ig.pc = "characterProfile"
    /\ ig.attempts["characterProfile"] < MAX_GENERATION_ATTEMPTS
    /\ \E outcome \in Outcomes :
        LET turn == GenerationLoopTurn(outcome,
                        ig.attempts["characterProfile"],
                        MAX_GENERATION_ATTEMPTS)
        IN  ig' = IF turn.again \/ turn.url
                  THEN AfterTurn("characterProfile", turn,
                                 "characterProfileDl")
                  ELSE [AfterTurn("characterProfile", turn, "done")
                            EXCEPT !.status = 500]
    /\ ImageVarsUnchanged

\* The download of the character profile: a failure is answered with
\* success and a warning.
CharacterProfileDownload ==
    /\ endpoint = "character"
    /\ ig.pc = "characterProfileDl"
    /\ \E ok \in BOOLEAN :
        ig' = [ig EXCEPT !.path["characterProfile"] = ok,
                         !.warning = ~ok,
                         !.pc = "done", !.status = 200]
    /\ ImageVarsUnchanged

-----------------------------------------------------------------------------
(* processImagesWithRateLimiting: api/image/generate *)

\* A call with n pages: i is the loop variable, task the state of the
\* promise of each page index ("none" before its generateImageFn call,
\* "pending" from the call on, then "fulfilled" or "rejected"), results the
\* array returned, sleeps the number of BATCH_DELAY waits done.
IdleBatchCall ==
    [pc |-> "idle", n |-> 0, i |-> 0, task |-> <<>>,
     results |-> <<>>, sleeps |-> 0]

Min(a, b) == IF a < b THEN a ELSE b

\* pages.slice(i, i + BATCH_SIZE), as page indexes.
BatchPages(i, n) == i .. (Min(i + BATCH_SIZE, n) - 1)

\* task as a sequence is indexed from 1: page index p is task[p + 1].
TaskOf(p) == bt.task[p + 1]

\* The entry of batchResults for page index p.
BatchResult(p) == [success |-> TaskOf(p) = "fulfilled", pageIndex |-> p]

RECURSIVE BatchResults(_, _)
BatchResults(from, to) ==
    IF from > to THEN <<>>
    ELSE <<BatchResult(from)>> \o BatchResults(from + 1, to)

BatchVarsUnchanged ==
    UNCHANGED <<endpoint, pipelineVars, ig, st, tp, sz, sg, pdf, sse, fd,
                pm, rh>>

\* The call and the first test of the for loop.
BatchCall ==
    /\ endpoint = "batch"
    /\ bt.pc = "idle"
    /\ \E n \in 0..MaxBatchPages :
        bt' = [bt EXCEPT !.n = n,
                         !.task = [k \in 1..n |-> "none"],
                         !.pc = IF n > 0 THEN "map" ELSE "done"]
    /\ BatchVarsUnchanged

\* batchPages.map(async ...): each callback runs up to its await, so every
\* page of the slice has its generateImageFn call made before any of them
\* settles.
IssueBatch ==
    /\ endpoint = "batch"
    /\ bt.pc = "map"
    /\ bt' = [bt EXCEPT
            !.task = [k \in 1..bt.n |->
                        IF k - 1 \in BatchPages(bt.i, bt.n)
                        THEN "pending" ELSE @[k]],
            !.pc = "all"]
    /\ BatchVarsUnchanged

\* generateImageFn of one page returns or throws; the callback's catch
\* turns a throw into a result with success false.
ImageSettles ==
    /\ endpoint = "batch"
    /\ \E p \in 0..(bt.n - 1), outcome \in {"fulfilled", "rejected"} :
        /\ TaskOf(p) = "pending"
        /\ bt' = [bt EXCEPT !.task[p + 1] = outcome]
    /\ BatchVarsUnchanged

\* Promise.all resolves once every promise of the batch has; the results
\* are pushed in page order; then the test for a further batch.
BatchAwaited ==
    /\ endpoint = "batch"
    /\ bt.pc = "all"
    /\ \A p \in BatchPages(bt.i, bt.n) : TaskOf(p) # "pending"
    /\ LET last == Min(bt.i + BATCH_SIZE, bt.n) - 1
           more == bt.i + BATCH_SIZE < bt.n
       IN  bt' = [bt EXCEPT
                !.results = @ \o BatchResults(bt.i, last),
                !.i = IF more THEN @ ELSE @ + BATCH_SIZE,
                !.pc = IF more THEN "sleep" ELSE "done"]
    /\ BatchVarsUnchanged

\* The BATCH_DELAY wait and the loop's i += BATCH_SIZE.
BatchDelay ==
    /\ endpoint = "batch"
    /\ bt.pc = "sleep"
    /\ bt' = [bt EXCEPT !.sleeps = @ + 1,
                        !.i = @ + BATCH_SIZE,
                        !.pc = "map"]
    /\ BatchVarsUnchanged

-----------------------------------------------------------------------------
(* The text model's answer to a story prompt *)

\* What openai.chat.completions.create and JSON.parse of its content can
\* come to: the call throws, the content is not JSON, or it is a JSON object
\* with or without a title and a coverDescription and with pages absent,
\* not an array, or an array of some length (pages: its length).
NoText ==
    [kind |-> "none", title |-> FALSE, coverDescription |-> FALSE,
     pagesKind |-> "absent", pages |-> 0]

TextResponses ==
    {[NoText EXCEPT !.kind = k] : k \in {"apiError", "notJson"}}
    \cup {[NoText EXCEPT !.kind = "object", !.title = t,
                         !.coverDescription = c, !.pagesKind = pk]
            : t \in BOOLEAN, c \in BOOLEAN, pk \in {"absent", "notArray"}}
    \cup [kind : {"object"}, title : BOOLEAN, coverDescription : BOOLEAN,
          pagesKind : {"array"}, pages : 0..MaxModelPages]

IsArray(text) == text.pagesKind = "array"

-----------------------------------------------------------------------------
(* The story handler: api/generate-story *)

\* What a call of openai.images.generate can come to: a response with a
\* URL, a response with no data or no URL, or an error: one carrying
\* response.status, one carrying code ECONNABORTED, or any other.
FirstOutcomes ==
    {"url", "emptyData", "noUrl", "status400", "status429", "status401",
     "status500", "status503", "ECONNABORTED", "otherError"}

RetryOutcomes == {"url", "emptyData", "noUrl", "error"}

\* A classification that takes 429 and 500 for content-policy rejections.
RetryOnApiErrors(outcome) ==
    IF outcome \in {"status400", "status429", "status500"}
    THEN "CONTENT_POLICY_VIOLATION" ELSE "UNKNOWN_ERROR"

\* errorType of the catch block.
ErrorType(outcome) ==
    CASE outcome = "status400" -> "CONTENT_POLICY_VIOLATION"
      [] outcome = "status429" -> "RATE_LIMIT_EXCEEDED"
      [] outcome = "status401" -> "AUTHENTICATION_ERROR"
      [] outcome = "status500" -> "SERVER_ERROR"
      [] outcome = "status503" -> "API_ERROR_503"
      [] outcome = "ECONNABORTED" -> "TIMEOUT_ERROR"
      [] OTHER -> "UNKNOWN_ERROR"

\* The promise of one prompt: state "pending" while its first request is
\* out, "retrying" while the request with the simplified prompt is out,
\* "resolved" with url the kind of URL it resolved to: "generated" (the first
\* response's), "simplified" (the retry's), "failed" or "limited" (the two
\* placeholders).
LimitedTask ==
    [state |-> "resolved", first |-> "none", retry |-> "none",
     requests |-> 0, url |-> "limited", savedLocally |-> FALSE]

PendingTask ==
    [state |-> "pending", first |-> "none", retry |-> "none",
     requests |-> 1, url |-> "none", savedLocally |-> FALSE]

\* allPrompts.map(async (prompt, index) => ...) up to each callback's first
\* await: an index beyond MAX_STORY_PAGES resolves to the "Limited"
\* placeholder, the others have sent their request.
ImagePromises(nPrompts) ==
    [k \in 1..nPrompts |->
        IF k - 1 > MAX_STORY_PAGES THEN LimitedTask ELSE PendingTask]

\* text: storyData as parsed from the text model's answer.
\* omits: the request body lacks childName or theme.  totalPages and
\* imagesGenerated: the response's totalPages (allPages.length, every entry
\* of which carries an imageUrl) and _debug.imagesGenerated.
IdleStoryRequest ==
    [pc |-> "idle", omits |-> FALSE, text |-> NoText, task |-> <<>>,
     imageUrls |-> <<>>, usedFallbackImages |-> FALSE, status |-> 0,
     totalPages |-> 0, imagesGenerated |-> 0]

\* url.includes("placehold.co")
IsPlaceholder(url) == url \in {"placeholder", "failed", "limited"}

\* imageUrls.filter((url) => !url.includes("placehold.co")).length
ImagesGenerated(imageUrls) ==
    Cardinality({k \in 1..Len(imageUrls) : ~IsPlaceholder(imageUrls[k])})

\* The story pages alone.
NoCoverPage(storyPages) == storyPages

\* allPages.length: the cover page and one page per story page.
AllPages(storyPages) == 1 + storyPages

\* Step 5: the response assembled from storyData and imageUrls.
StoryWithImages(rec, imageUrls) ==
    [rec EXCEPT !.pc = "done", !.status = 200,
                !.imageUrls = imageUrls,
                !.totalPages = AllPages(rec.text.pages),
                !.imagesGenerated = ImagesGenerated(imageUrls)]

\* A validation that asks for the child's name only.
ThemeOptional(childName, theme) == ~childName

\* The validation of the request.
MissingRequiredFields(childName, theme) == ~childName \/ ~theme

\* Whether the handler gets through its steps 1 to 3 with this storyData:
\* nothing is validated, but storyData.pages.length, storyData.pages[0].text
\* and storyData.pages.map throw unless pages is an array with an element.
\* title and coverDescription are not looked at.
StoryDataUsable(text) ==
    /\ text.kind = "object"
    /\ IsArray(text)
    /\ text.pages >= 1

StoryVarsUnchanged ==
    UNCHANGED <<endpoint, pipelineVars, ig, bt, tp, sz, sg, pdf, sse, fd,
                pm, rh>>

\* The handler up to the image requests: the check of childName and theme
\* (400), the story text, the character descriptions and the prompts (a
\* throw reaches the outer catch: 500), the API key check (placeholders for
\* every image).
StoryRequest ==
    /\ endpoint = "story"
    /\ st.pc = "idle"
    /\ \E setup \in {"ok", "threw", "noApiKey"},
          childName \in BOOLEAN, theme \in BOOLEAN,
          text \in TextResponses,
          nImagePrompts \in 0..MaxStoryPages :
        LET missing == MissingRequiredFields(childName, theme)
            req == [st EXCEPT !.omits = (~childName \/ ~theme)]
        IN  st' = CASE missing ->
                    [req EXCEPT !.pc = "done", !.status = 400]
                [] ~missing /\ ~StoryDataUsable(text) ->
                    [req EXCEPT !.pc = "done", !.status = 500,
                                !.text = text]
                [] ~missing /\ setup = "threw" /\ StoryDataUsable(text) ->
                    [req EXCEPT !.pc = "done", !.status = 500,
                                !.text = text]
                [] ~missing /\ setup = "noApiKey"
                        /\ StoryDataUsable(text) ->
                    StoryWithImages(
                        [req EXCEPT !.text = text,
                                    !.usedFallbackImages = TRUE],
                        [k \in 1..(text.pages + 1) |-> "placeholder"])
                [] OTHER ->
                    [req EXCEPT !.pc = "images",
                                !.text = text,
                                !.task = ImagePromises(nImagePrompts + 1)]
    /\ StoryVarsUnchanged

\* The first request of prompt idx settles.  A URL: the image is saved
\* locally (errors swallowed) and the URL returned.  Otherwise the catch
\* block: on CONTENT_POLICY_VIOLATION the request with the simplified prompt
\* is sent, on anything else the "Failed" placeholder is returned.
FirstResponse ==
    /\ endpoint = "story"
    /\ st.pc = "images"
    /\ \E idx \in 1..Len(st.task), outcome \in FirstOutcomes,
          saveOk \in BOOLEAN :
        /\ st.task[idx].state = "pending"
        /\ outcome # "url" => ~saveOk
        /\ st' =
            IF outcome = "url"
            THEN [st EXCEPT !.task[idx].state = "resolved",
                            !.task[idx].first = outcome,
                            !.task[idx].savedLocally = saveOk,
                            !.task[idx].url = "generated"]
            ELSE IF ErrorType(outcome) = "CONTENT_POLICY_VIOLATION"
            THEN [st EXCEPT !.task[idx].state = "retrying",
                            !.task[idx].first = outcome,
                            !.task[idx].requests = @ + 1]
            ELSE [st EXCEPT !.task[idx].state = "resolved",
                            !.task[idx].first = outcome,
                            !.task[idx].url = "failed",
                            !.usedFallbackImages = TRUE]
    /\ StoryVarsUnchanged

\* The request with the simplified prompt settles: its URL is returned if
\* it has one; if not, or on an error, the "Failed" placeholder.
RetryResponse ==
    /\ endpoint = "story"
    /\ st.pc = "images"
    /\ \E idx \in 1..Len(st.task), outcome \in RetryOutcomes :
        /\ st.task[idx].state = "retrying"
        /\ st' =
            IF outcome = "url"
            THEN [st EXCEPT !.task[idx].state = "resolved",
                            !.task[idx].retry = outcome,
                            !.task[idx].url = "simplified"]
            ELSE [st EXCEPT !.task[idx].state = "resolved",
                            !.task[idx].retry = outcome,
                            !.task[idx].url = "failed",
                            !.usedFallbackImages = TRUE]
    /\ StoryVarsUnchanged

\* Promise.all of the first MAX_STORY_PAGES + 1 promises, and the response.
StoryResponse ==
    /\ endpoint = "story"
    /\ st.pc = "images"
    /\ LET awaited == SubSeq(st.task, 1,
                             Min(MAX_STORY_PAGES + 1, Len(st.task)))
       IN  /\ \A k \in 1..Len(awaited) : awaited[k].state = "resolved"
           /\ st' = StoryWithImages(st, [k \in 1..Len(awaited) |->
                                                awaited[k].url])
    /\ StoryVarsUnchanged

-----------------------------------------------------------------------------
(* trimPromptToLimit: api/image/generate *)

\* A prompt is a sequence of characters: "a" any character of no
\* significance, "K" an occurrence of one of the priorityKeywords (taken as
\* one character), NL a newline.
NL == "n"
Chars == {"a", "K", NL}

Prompts == UNION {[1..len -> Chars] : len \in 0..MaxPromptLen}

\* prompt.split("\n\n"): the separators are found from left to right and do
\* not overlap; the empty prompt gives one empty section.
RECURSIVE SplitFrom(_, _, _)
SplitFrom(s, k, section) ==
    IF k > Len(s) THEN <<section>>
    ELSE IF k < Len(s) /\ s[k] = NL /\ s[k + 1] = NL
         THEN <<section>> \o SplitFrom(s, k + 2, <<>>)
         ELSE SplitFrom(s, k + 1, Append(section, s[k]))

Split(s) == SplitFrom(s, 1, <<>>)

\* String.prototype.trim: white space is removed from both ends.
RECURSIVE TrimStart(_)
TrimStart(s) ==
    IF s # <<>> /\ Head(s) \in {NL, " "} THEN TrimStart(Tail(s)) ELSE s

RECURSIVE TrimEnd(_)
TrimEnd(s) ==
    IF s # <<>> /\ s[Len(s)] \in {NL, " "}
    THEN TrimEnd(SubSeq(s, 1, Len(s) - 1)) ELSE s

Trim(s) == TrimEnd(TrimStart(s))

\* priorityKeywords.some((keyword) => section.includes(keyword))
HasPriorityKeyword(section) == Includes(section, "K")

\* The two loops over prioritySections and normalSections: a section is
\* appended, with "\n\n", when the result stays within maxLength.
RECURSIVE AddSections(_, _, _)
AddSections(trimmedPrompt, sections, maxLength) ==
    IF sections = <<>> THEN trimmedPrompt
    ELSE LET section == Head(sections)
         IN  AddSections(
                IF Len(trimmedPrompt) + Len(section) + 2 <= maxLength
                THEN trimmedPrompt \o section \o <<NL, NL>>
                ELSE trimmedPrompt,
                Tail(sections), maxLength)

\* The sections after the first in the order of the document.
DocumentOrder(sections) == [k \in 1..(Len(sections) - 1) |-> k + 1]

\* The order in which the sections after the first are considered, as
\* indexes into sections: prioritySections, then normalSections, each in
\* the order of the document.
ConsiderationOrder(sections) ==
    LET rest == [k \in 1..(Len(sections) - 1) |-> k + 1]
    IN  SelectSeq(rest, LAMBDA k : HasPriorityKeyword(sections[k]))
            \o SelectSeq(rest, LAMBDA k : ~HasPriorityKeyword(sections[k]))

\* The indexes of the sections the two loops append, in the order they are
\* appended; used is trimmedPrompt.length.
RECURSIVE AppendedSections(_, _, _, _)
AppendedSections(used, order, sections, maxLength) ==
    IF order = <<>> THEN <<>>
    ELSE LET len == Len(sections[Head(order)])
         IN  IF used + len + 2 <= maxLength
             THEN <<Head(order)>> \o
                  AppendedSections(used + len + 2, Tail(order),
                                   sections, maxLength)
             ELSE AppendedSections(used, Tail(order), sections, maxLength)

\* The sections of an over-long prompt that make up the result: the first,
\* then those appended.
RetainedSections(prompt, maxLength) ==
    LET sections == Split(prompt)
    IN  <<1>> \o AppendedSections(Len(sections[1]) + 2,
                                  ConsiderationOrder(sections),
                                  sections, maxLength)

TrimPromptToLimit(prompt, maxLength) ==
    IF Len(prompt) <= maxLength THEN prompt
    ELSE LET sections == Split(prompt)
             order == ConsiderationOrder(sections)
             considered == [k \in 1..Len(order) |-> sections[order[k]]]
             first == Head(sections) \o <<NL, NL>>
         IN  Trim(AddSections(first, considered, maxLength))

\* retained: the sections the result was made of, <<>> when the prompt was
\* returned as it came.
IdleTrimCall ==
    [pc |-> "idle", prompt |-> <<>>, maxLength |-> 0, result |-> <<>>,
     retained |-> <<>>]

\* A call of trimPromptToLimit and its return.
TrimCall ==
    /\ endpoint = "trim"
    /\ tp.pc = "idle"
    /\ \E prompt \in Prompts, maxLength \in 0..MaxBudget :
        tp' = [pc |-> "done", prompt |-> prompt, maxLength |-> maxLength,
               result |-> TrimPromptToLimit(prompt, maxLength),
               retained |-> IF Len(prompt) <= maxLength THEN <<>>
                            ELSE RetainedSections(prompt, maxLength)]
    /\ UNCHANGED <<endpoint, pipelineVars, ig, bt, st, sz, sg, pdf, sse,
                   fd, pm, rh>>

-----------------------------------------------------------------------------
(* sanitizePrompt: api/image/generate; sanitizeContent: api/story/generate *)

\* The alternatives of the two regular expressions and their replacements,
\* as sequences of characters.
FilteredWords ==
    <<<<"v", "i", "o", "l", "e", "n", "t">>,
      <<"e", "x", "p", "l", "i", "c", "i", "t">>,
      <<"g", "r", "a", "p", "h", "i", "c">>,
      <<"i", "n", "a", "p", "p", "r", "o", "p", "r", "i", "a", "t", "e">>>>

HarmWords ==
    <<<<"k", "i", "l", "l">>, <<"h", "a", "r", "m">>,
      <<"h", "u", "r", "t">>, <<"w", "e", "a", "p", "o", "n">>>>

Gentle == <<"g", "e", "n", "t", "l", "e">>
InteractWith == <<"i", "n", "t", "e", "r", "a", "c", "t", " ", "w", "i", "t", "h">>

\* The i flag: a character is compared by its lower-case form.
Lower(c) ==
    CASE c = "K" -> "k" [] c = "H" -> "h" [] c = "W" -> "w"
      [] c = "V" -> "v" [] OTHER -> c

\* word matches text at position k, whatever the case.
MatchesAt(text, k, word) ==
    /\ k + Len(word) - 1 <= Len(text)
    /\ \A j \in 1..Len(word) : Lower(text[k + j - 1]) = word[j]

\* text.replace(/w1|w2|.../gi, replacement) from position k on: the
\* matches are found from left to right and do not overlap, at a position
\* the alternatives are tried in their order, the replacement is not
\* searched again.
RECURSIVE ReplaceFrom(_, _, _, _)
ReplaceFrom(text, k, words, replacement) ==
    IF k > Len(text) THEN <<>>
    ELSE LET hits == {w \in 1..Len(words) : MatchesAt(text, k, words[w])}
         IN  IF hits = {}
             THEN <<text[k]>> \o ReplaceFrom(text, k + 1, words, replacement)
             ELSE LET w == CHOOSE x \in hits : \A y \in hits : x <= y
                  IN  replacement \o
                      ReplaceFrom(text, k + Len(words[w]), words,
                                  replacement)

ReplaceAll(text, words, replacement) ==
    ReplaceFrom(text, 1, words, replacement)

SanitizePrompt(prompt) ==
    ReplaceAll(ReplaceAll(prompt, FilteredWords, Gentle),
               HarmWords, InteractWith)

\* sanitizeContent: the same replacements behind `if (!content)`.
SanitizeContent(content) ==
    IF content = <<>> THEN content
    ELSE ReplaceAll(ReplaceAll(content, FilteredWords, Gentle),
                    HarmWords, InteractWith)

\* The texts tried: up to MaxPieces pieces, put end to end.
Pieces ==
    {<<"k", "i", "l", "l">>,
     <<"u", "r", "t">>,
     <<"H", "a", "r", "m">>,
     <<"h">>,
     <<"v", "i", "o", "l", "e", "n", "t">>,
     <<"x", "p", "l", "i", "c", "i", "t">>,
     <<"a", " ", "c", "a", "t">>,
     <<" ">>}

RECURSIVE Flatten(_)
Flatten(ps) == IF ps = <<>> THEN <<>> ELSE Head(ps) \o Flatten(Tail(ps))

Texts == {Flatten(ps) : ps \in UNION {[1..n -> Pieces] : n \in 0..MaxPieces}}

IdleSanitizer ==
    [pc |-> "idle", fn |-> "none", text |-> <<>>, once |-> <<>>,
     twice |-> <<>>]

Sanitizer(fn, text) ==
    IF fn = "sanitizePrompt" THEN SanitizePrompt(text)
                             ELSE SanitizeContent(text)

\* A text is sanitized.
Sanitize ==
    /\ endpoint = "sanitize"
    /\ sz.pc = "idle"
    /\ \E fn \in {"sanitizePrompt", "sanitizeContent"}, text \in Texts :
        sz' = [sz EXCEPT !.pc = "once", !.fn = fn, !.text = text,
                         !.once = Sanitizer(fn, text)]
    /\ UNCHANGED <<endpoint, pipelineVars, ig, bt, st, tp, sg, pdf, sse,
                   fd, pm, rh>>

\* The sanitized text is sanitized again.
SanitizeAgain ==
    /\ endpoint = "sanitize"
    /\ sz.pc = "once"
    /\ sz' = [sz EXCEPT !.pc = "twice", !.twice = Sanitizer(sz.fn, sz.once)]
    /\ UNCHANGED <<endpoint, pipelineVars, ig, bt, st, tp, sg, pdf, sse,
                   fd, pm, rh>>

-----------------------------------------------------------------------------
(* The story text handler: api/story/generate *)

\* text: storyData as parsed; returned: the document of the response, if
\* one is returned.
\* omits: the request body lacks childName.
IdleStoryTextRequest ==
    [pc |-> "idle", omits |-> FALSE, text |-> NoText, status |-> 0,
     returned |-> NoText]

\* The validation of the parsed answer.
ValidStoryFormat(text) ==
    /\ text.title
    /\ text.coverDescription
    /\ text.pagesKind # "absent"
    /\ IsArray(text)

StoryTextVarsUnchanged ==
    UNCHANGED <<endpoint, pipelineVars, ig, bt, st, tp, sz, pdf, sse, fd,
                pm, rh>>

\* The handler up to its call of the text model: request.json() (a throw
\* reaches the outer catch: 500), the check of childName (400), the prompt.
StoryTextRequest ==
    /\ endpoint = "storyText"
    /\ sg.pc = "idle"
    /\ \E body \in {"object", "threw"}, childName \in BOOLEAN :
        sg' = IF body = "threw"
              THEN [sg EXCEPT !.pc = "done", !.status = 500]
              ELSE IF ~childName
              THEN [sg EXCEPT !.pc = "done", !.status = 400,
                              !.omits = ~childName]
              ELSE [sg EXCEPT !.pc = "completion", !.omits = ~childName]
    /\ StoryTextVarsUnchanged

\* The text model answers: a throw of the call or of JSON.parse and an
\* answer of invalid format are answered with 500; otherwise the parsed
\* document, its texts sanitized, is the response.
StoryTextResponse ==
    /\ endpoint = "storyText"
    /\ sg.pc = "completion"
    /\ \E text \in TextResponses :
        sg' = IF text.kind = "object" /\ ValidStoryFormat(text)
              THEN [sg EXCEPT !.pc = "done", !.status = 200,
                              !.text = text, !.returned = text]
              ELSE [sg EXCEPT !.pc = "done", !.status = 500,
                              !.text = text]
    /\ StoryTextVarsUnchanged

-----------------------------------------------------------------------------
(* generatePDF: the assembly of the PDF document of a story *)

\* What a page's imageUrl can be: absent, a local path (it starts with
\* "/"), a placehold.co URL, or another remote URL.
ImageUrls == {"none", "local", "placeholder", "remote"}

\* The formats the bytes fetched can have: "other" is neither JPEG nor PNG.
Formats == {"jpg", "png", "other"}

\* fetchImageAsBytes.  fetch: whether the fetch of imageUrl itself
\* succeeds; placeholderFetch: whether the fetch of PLACEHOLDER_IMAGE_URL
\* does.  The result is "null", the bytes of the page's own image, or the
\* bytes of the placeholder image.
FetchImageAsBytes(imageUrl, fetch, placeholderFetch) ==
    CASE imageUrl = "none" -> "null"
      [] imageUrl = "local" ->
            IF fetch THEN "own"
            ELSE IF placeholderFetch THEN "placeholder" ELSE "null"
      [] imageUrl = "placeholder" ->
            IF placeholderFetch THEN "placeholder" ELSE "null"
      [] OTHER -> IF fetch THEN "own" ELSE "null"

\* The page without the drawText calls of the else branch and of the catch
\* block.
PageShowsWithoutFallback(imageUrl, fetch, placeholderFetch, format) ==
    LET imageBytes == FetchImageAsBytes(imageUrl, fetch, placeholderFetch)
    IN  IF imageUrl = "none" \/ imageBytes = "null" \/ format = "other"
        THEN "nothing"
        ELSE IF imageBytes = "own" THEN "image" ELSE "placeholderImage"

\* What a page of the document shows where its image belongs: nothing
\* without an imageUrl; the "not available" text when no bytes were
\* obtained; the "error loading" text when embedJpg and embedPng both
\* throw; otherwise the image embedded.
PageShows(imageUrl, fetch, placeholderFetch, format) ==
    LET imageBytes == FetchImageAsBytes(imageUrl, fetch, placeholderFetch)
    IN  IF imageUrl = "none" THEN "nothing"
        ELSE IF imageBytes = "null" THEN "notAvailableText"
        ELSE IF format = "other" THEN "errorText"
        ELSE IF imageBytes = "own" THEN "image" ELSE "placeholderImage"

\* n: storyData.pages.length, the cover page included; fonts: the fonts
\* embedded; doc: the pages added to pdfDoc, of each its imageUrl, whether
\* its own image could not be fetched or embedded (cannot), and what it
\* shows.
IdlePdfCall == [pc |-> "idle", n |-> 0, fonts |-> "none", doc |-> <<>>]

PdfVarsUnchanged ==
    UNCHANGED <<endpoint, pipelineVars, ig, bt, st, tp, sz, sg, sse, fd,
                pm, rh>>

\* The call up to the cover page: the custom fonts, or the standard ones
\* when a font cannot be fetched or embedded.
GeneratePDF ==
    /\ endpoint = "pdf"
    /\ pdf.pc = "idle"
    /\ \E n \in 1..MaxPdfPages, customFonts \in BOOLEAN :
        pdf' = [pdf EXCEPT !.pc = "pages", !.n = n,
                           !.fonts = IF customFonts THEN "custom"
                                                    ELSE "standard"]
    /\ PdfVarsUnchanged

\* pdfDoc.addPage and the page's image, for the cover page and for each
\* content page.
AddPdfPage ==
    /\ endpoint = "pdf"
    /\ pdf.pc = "pages"
    /\ Len(pdf.doc) < pdf.n
    /\ \E imageUrl \in ImageUrls, fetch \in BOOLEAN,
          placeholderFetch \in BOOLEAN, format \in Formats :
        LET own == IF imageUrl = "placeholder" THEN placeholderFetch
                                               ELSE fetch
            page == [imageUrl |-> imageUrl,
                     cannot |-> /\ imageUrl # "none"
                                /\ (~own \/ format = "other"),
                     shows |-> PageShows(imageUrl, fetch, placeholderFetch,
                                         format)]
        IN  pdf' = [pdf EXCEPT !.doc = Append(@, page)]
    /\ PdfVarsUnchanged

\* pdfDoc.save()
SavePdf ==
    /\ endpoint = "pdf"
    /\ pdf.pc = "pages"
    /\ Len(pdf.doc) = pdf.n
    /\ pdf' = [pdf EXCEPT !.pc = "done"]
    /\ PdfVarsUnchanged

-----------------------------------------------------------------------------
(* The status stream: GET of api/save-story *)

STAGES ==
    <<"Brainstorming story ideas",
      "Crafting the perfect narrative",
      "Developing unique characters",
      "Creating the story structure",
      "Writing engaging dialogues",
      "Designing character appearances",
      "Planning illustration concepts",
      "Creating visual descriptions",
      "Generating art prompts",
      "Crafting detailed illustrations",
      "Finalizing page layouts",
      "Polishing the final storybook">>

\* The last label, whatever the counter.
LastStage(counter) == STAGES[Len(STAGES)]

\* STAGES[counter], the array being indexed from 0.
StageAt(counter) == STAGES[counter + 1]

\* The stream after start(controller): counter, the interval set, nothing
\* enqueued.  ticks: the runs of the interval's callback; aborted: the
\* request's abort event was delivered; closeThrew: controller.close() was
\* called on the closed stream.
NewStatusStream ==
    [counter |-> 0, interval |-> TRUE, emitted |-> <<>>, closed |-> FALSE,
     ticks |-> 0, aborted |-> FALSE, closeThrew |-> FALSE]

\* A timer left running.
KeepInterval(interval) == interval

\* clearInterval(interval): the callback runs no more.
ClearInterval(interval) == FALSE

StatusVarsUnchanged ==
    UNCHANGED <<endpoint, pipelineVars, ig, bt, st, tp, sz, sg, pdf, fd,
                pm, rh>>

\* One run of the interval's callback.
StatusTick ==
    /\ endpoint = "status"
    /\ sse.interval
    /\ sse' = IF sse.counter < Len(STAGES)
              THEN [sse EXCEPT !.emitted = Append(@, StageAt(sse.counter)),
                               !.counter = @ + 1,
                               !.ticks = @ + 1]
              ELSE [sse EXCEPT !.interval = ClearInterval(@),
                               !.closed = TRUE,
                               !.ticks = @ + 1]
    /\ StatusVarsUnchanged

\* The listener of the request's abort event: the client disconnected.
ClientAbort ==
    /\ endpoint = "status"
    /\ ~sse.aborted
    /\ sse' = [sse EXCEPT !.aborted = TRUE,
                          !.interval = ClearInterval(@),
                          !.closed = TRUE,
                          !.closeThrew = sse.closed]
    /\ StatusVarsUnchanged

-----------------------------------------------------------------------------
(* The folder name of a story, derived from its title *)

\* The characters of a title: a lower-case letter, an upper-case letter, a
\* space, a punctuation mark, an underscore.
TitleChars == {"a", "A", " ", "!", "_"}

Titles == UNION {[1..len -> TitleChars] : len \in 1..MaxTitleLen}

\* /[a-zA-Z0-9]/
IsAlphanumeric(c) == c \in {"a", "A"}

\* /\w/: the alphanumerics and the underscore.
IsWordChar(c) == IsAlphanumeric(c) \/ c = "_"

\* /\s/
IsSpace(c) == c = " "

ToLowerCase(str) == [k \in 1..Len(str) |-> IF str[k] = "A" THEN "a" ELSE str[k]]

\* str.replace(/[^a-zA-Z0-9]/g, "_").toLowerCase(): sanitizeForFolder of
\* api/save-story, and the same expression in saveImageToDisk of
\* api/generate-story.
SanitizeForFolder(str) ==
    ToLowerCase([k \in 1..Len(str) |->
                    IF IsAlphanumeric(str[k]) THEN str[k] ELSE "_"])

\* str.replace(/\s+/g, "_"): every run of spaces becomes one underscore.
RECURSIVE CollapseSpaces(_)
CollapseSpaces(str) ==
    IF str = <<>> THEN <<>>
    ELSE IF IsSpace(Head(str))
    THEN IF Len(str) > 1 /\ IsSpace(str[2])
         THEN CollapseSpaces(Tail(str))
         ELSE <<"_">> \o CollapseSpaces(Tail(str))
    ELSE <<Head(str)>> \o CollapseSpaces(Tail(str))

\* title.replace(/[^\w\s]/gi, "").replace(/\s+/g, "_").toLowerCase(): the
\* folderName of api/image/generate, api/image/character and the image
\* pipeline.
FolderName(title) ==
    ToLowerCase(CollapseSpaces(
        SelectSeq(title, LAMBDA c : IsWordChar(c) \/ IsSpace(c))))

IdleFolders ==
    [pc |-> "idle", title |-> <<>>, saveStory |-> <<>>,
     imageGenerate |-> <<>>, again |-> <<>>]

FolderVarsUnchanged ==
    UNCHANGED <<endpoint, pipelineVars, ig, bt, st, tp, sz, sg, pdf, sse,
                pm, rh>>

\* A story's title reaches api/save-story and api/image/generate.
DeriveFolders ==
    /\ endpoint = "folder"
    /\ fd.pc = "idle"
    /\ \E title \in Titles :
        fd' = [fd EXCEPT !.pc = "derived", !.title = title,
                         !.saveStory = SanitizeForFolder(title),
                         !.imageGenerate = FolderName(title)]
    /\ FolderVarsUnchanged

\* The same title reaches api/save-story once more.
DeriveAgain ==
    /\ endpoint = "folder"
    /\ fd.pc = "derived"
    /\ fd' = [fd EXCEPT !.pc = "done", !.again = SanitizeForFolder(fd.title)]
    /\ FolderVarsUnchanged

-----------------------------------------------------------------------------
(* A prompt on its way to the image model: api/image/generate *)

\* The raw prompts tried: up to MaxPieces pieces put end to end, a piece
\* being a word that sanitizePrompt lengthens, one that it shortens, a
\* character of no significance, or the separator of two sections.
PromptPieces ==
    {<<"k", "i", "l", "l">>,
     <<"v", "i", "o", "l", "e", "n", "t">>,
     <<"a">>,
     <<NL, NL>>}

RawPrompts ==
    {Flatten(ps) : ps \in UNION {[1..n -> PromptPieces] : n \in 1..MaxPieces}}

IdlePrompt ==
    [pc |-> "idle", raw |-> <<>>, maxLength |-> 0, trimmed |-> <<>>,
     sent |-> <<>>]

\* trimPromptToLimit, then sanitizePrompt; the result is the prompt of
\* openai.images.generate.
SendPrompt ==
    /\ endpoint = "prompt"
    /\ pm.pc = "idle"
    /\ \E raw \in RawPrompts, maxLength \in 1..MaxBudget :
        LET trimmed == TrimPromptToLimit(raw, maxLength)
        IN  pm' = [pm EXCEPT !.pc = "sent", !.raw = raw,
                             !.maxLength = maxLength,
                             !.trimmed = trimmed,
                             !.sent = SanitizePrompt(trimmed)]
    /\ UNCHANGED <<endpoint, pipelineVars, ig, bt, st, tp, sz, sg, pdf, sse,
                   fd, rh>>

-----------------------------------------------------------------------------
(* The retry helpers: generateImageWithRetry, downloadImageWithRetry,
   fetchWithRetry *)

Helpers == {"generateImageWithRetry", "downloadImageWithRetry",
            "fetchWithRetry"}

\* The default maxRetries of each helper, which every caller leaves as it
\* is.
MaxRetries(helper) ==
    CASE helper = "generateImageWithRetry" -> GEN_MAX_RETRIES
      [] helper = "downloadImageWithRetry" -> DOWNLOAD_MAX_RETRIES
      [] OTHER -> FETCH_MAX_RETRIES

RECURSIVE Pow2(_)
Pow2(k) == IF k = 0 THEN 1 ELSE 2 * Pow2(k - 1)

\* The delay, in ms, waited after the failed attempt of that number:
\* 3000 * attempt, 2000 * attempt, and delay doubled after every wait from
\* 1000 on.
BackoffDelay(helper, attempt) ==
    CASE helper = "generateImageWithRetry" -> 3000 * attempt
      [] helper = "downloadImageWithRetry" -> 2000 * attempt
      [] OTHER -> 1000 * Pow2(attempt - 1)

\* fetchWithRetry, one turn of its loop: fetch; a response that is not ok
\* is thrown as an error; on an error another turn while
\* attempt < maxRetries.
FetchTurn(ok, n, maxRetries) ==
    IF ok THEN "returned"
    ELSE IF n < maxRetries THEN "again" ELSE "threw"

\* One turn of a helper's loop, by the helper's own code: the helper
\* returns, goes to its wait and another turn, or leaves the loop and
\* throws.
HelperTurn(helper, outcome, n) ==
    LET maxRetries == MaxRetries(helper)
    IN  CASE helper = "generateImageWithRetry" ->
                LET t == GenerateTurn(outcome, n, maxRetries)
                IN  IF t = "dl" THEN "returned"
                    ELSE IF t = "gen" THEN "again" ELSE "threw"
          [] helper = "downloadImageWithRetry" ->
                LET t == DownloadTurn(outcome = "ok", n, maxRetries)
                IN  IF t = "got" THEN "returned"
                    ELSE IF t = "dl" THEN "again" ELSE "threw"
          [] OTHER -> FetchTurn(outcome = "ok", n, maxRetries)

\* attempt: the helper's counter; calls and successes: the calls made of
\* openai.images.generate or fetch and those of them that succeeded;
\* delays: the waits done.
IdleHelper ==
    [pc |-> "idle", helper |-> "none", attempt |-> 0, calls |-> 0,
     successes |-> 0, delays |-> <<>>]

HelperVarsUnchanged ==
    UNCHANGED <<endpoint, pipelineVars, ig, bt, st, tp, sz, sg, pdf, sse, fd,
                pm>>

\* A helper is called.
HelperCalled ==
    /\ endpoint = "retry"
    /\ rh.pc = "idle"
    /\ \E helper \in Helpers :
        rh' = [rh EXCEPT !.pc = "loop", !.helper = helper]
    /\ HelperVarsUnchanged

\* One attempt: the counter, the call, and where the loop goes.
HelperAttempt ==
    /\ endpoint = "retry"
    /\ rh.pc = "loop"
    /\ rh.attempt < MaxRetries(rh.helper)
    /\ \E outcome \in Outcomes :
        LET n == rh.attempt + 1
            turn == HelperTurn(rh.helper, outcome, n)
        IN  rh' = [rh EXCEPT
                    !.attempt = n,
                    !.calls = @ + 1,
                    !.successes = IF outcome = "ok" THEN @ + 1 ELSE @,
                    !.pc = IF turn = "again" THEN "wait" ELSE turn]
    /\ HelperVarsUnchanged

\* The wait before the next attempt.
HelperWait ==
    /\ endpoint = "retry"
    /\ rh.pc = "wait"
    /\ rh' = [rh EXCEPT !.pc = "loop",
                        !.delays = Append(@, BackoffDelay(rh.helper,
                                                          rh.attempt))]
    /\ HelperVarsUnchanged

-----------------------------------------------------------------------------

Endpoints ==
    {"pipeline", "imageGenerate", "character", "batch", "story", "trim",
     "sanitize", "storyText", "pdf", "status", "folder", "prompt", "retry"}

Init ==
    /\ endpoint \in Endpoints
    /\ concurrent \in (IF endpoint = "pipeline" THEN BOOLEAN ELSE {FALSE})
    /\ total \in (IF endpoint # "pipeline" THEN {1}
                  ELSE 1..(IF concurrent THEN MaxPagesConcurrent
                                         ELSE MaxPages))
    /\ ig = IdleImageRequest
    /\ bt = IdleBatchCall
    /\ st = IdleStoryRequest
    /\ tp = IdleTrimCall
    /\ sz = IdleSanitizer
    /\ sg = IdleStoryTextRequest
    /\ pdf = IdlePdfCall
    /\ sse = NewStatusStream
    /\ fd = IdleFolders
    /\ pm = IdlePrompt
    /\ rh = IdleHelper
    /\ disk = NoFile
    /\ saved = {}
    /\ started = 0
    /\ writeFaults = 0
    /\ lastFull = FALSE
    /\ discarded = FALSE
    /\ run = [r \in Runs |-> IdleRun]

PipelineNext ==
    \E r \in Runs :
        \/ StartRun(r)
        \/ GenerateAttempt(r)
        \/ DownloadAttempt(r)
        \/ CoverSucceeded(r)
        \/ CoverFailed(r)
        \/ RateLimitPause(r)
        \/ PageSucceeded(r)
        \/ PageFailed(r)
        \/ FinishMainPass(r)
        \/ SecondPass(r)

ImageNext ==
    \/ ImageRequestStart
    \/ FirstPageAttempt
    \/ FirstPageDownload
    \/ CoverAttempt
    \/ CoverDownload
    \/ CharacterProfileAttempt
    \/ CharacterProfileDownload

BatchNext ==
    \/ BatchCall
    \/ IssueBatch
    \/ ImageSettles
    \/ BatchAwaited
    \/ BatchDelay

StoryNext ==
    \/ StoryRequest
    \/ FirstResponse
    \/ RetryResponse
    \/ StoryResponse

SanitizeNext == Sanitize \/ SanitizeAgain

StoryTextNext == StoryTextRequest \/ StoryTextResponse

PdfNext == GeneratePDF \/ AddPdfPage \/ SavePdf

StatusNext == StatusTick \/ ClientAbort

FolderNext == DeriveFolders \/ DeriveAgain

HelperNext == HelperCalled \/ HelperAttempt \/ HelperWait

Next ==
    \/ PipelineNext
    \/ ImageNext
    \/ BatchNext
    \/ StoryNext
    \/ TrimCall
    \/ SanitizeNext
    \/ StoryTextNext
    \/ PdfNext
    \/ StatusNext
    \/ FolderNext
    \/ SendPrompt
    \/ HelperNext

Spec == Init /\ [][Next]_vars

-----------------------------------------------------------------------------
(* Properties of the pipeline *)

Count(s, x) == Cardinality({k \in 1..Len(s) : s[k] = x})

\* C1: a run never asks the image model for a page that the progress record
\* it read at its start lists as generated; with pages 1 and 2 listed as
\* generated and page 3 as failed (of 3), the only page it asks for is 3.
C1_NoRequestForGeneratedPage ==
    \A r \in Runs :
        LET existing == run[r].existingProgress
        IN  /\ run[r].requested \cap SetOf(existing.pagesGenerated) = {}
            /\ ( /\ total = 3
                 /\ existing.pagesGenerated = <<1, 2>>
                 /\ existing.failedPages = <<3>> )
               => run[r].requested \ {COVER} \subseteq {3}

C1_Witness ==
    \E r \in Runs :
        /\ total = 3
        /\ run[r].existingProgress.pagesGenerated = <<1, 2>>
        /\ run[r].existingProgress.failedPages = <<3>>
        /\ run[r].pc = "done"
        /\ run[r].requested \ {COVER} = {3}

\* A step in which run r's attempt at a page of the main pass ends, and
\* whether the file then lists the page under its outcome.
PageAttemptEnds(r) ==
    /\ run[r].pc = "pages"
    /\ run'[r].pc = "pages"
    /\ run'[r].i = run[r].i + 1

OutcomeOnDisk(r) ==
    IF run[r].phase = "got"
    THEN Includes(disk'.pagesGenerated, PageNum(r))
    ELSE Includes(disk'.failedPages, PageNum(r))

C3_RerunAfterFullRunRequestsNothing ==
    \A r \in Runs :
        run[r].afterFull =>
            /\ run[r].requested = {}
            /\ run[r].pc = "done" =>
                <<SetOf(disk.pagesGenerated), SetOf(disk.failedPages)>>
                    = run[r].startSets

\* C4: a run whose main pass left failed pages (and not only failed pages)
\* has, when it ends, asked for each of them once more in the second pass.
C4_FailedPagesRetriedOnce ==
    \A r \in Runs :
        (run[r].pc = "done" /\ RetryNeeded(run[r].generationResults)) =>
            \A p \in SetOf(run[r].generationResults.failedPages) :
                Count(run[r].retried, p) = 1

\* C5: a rewrite of the progress file drops a page that the file listed as
\* generated only when two runs overlap; runs that follow one another never
\* lose a recorded page.
C5_OnlyOverlappingRunsDiscard == discarded => concurrent

C5_Witness == concurrent /\ discarded

\* C6: a run that got as far as asking for images ends with a success
\* response, whichever single image failed.
C6_ImageFailureNeverFailsRequest ==
    \A r \in Runs :
        (run[r].pc = "done" /\ run[r].requested # {}) =>
            run[r].response.status = 200

\* C7: whenever an attempt for an image has failed, the attempts made for
\* that image reach the cap before the handler gives the image up: in the
\* loops of the image handlers (cap MAX_GENERATION_ATTEMPTS) and in the
\* pipeline's generateImageWithRetry (cap maxRetries).
C7_FailedAttemptRetriedUpToCap ==
    /\ \A img \in Images :
        ig.threw[img] => ig.attempts[img] = MAX_GENERATION_ATTEMPTS
    /\ \A r \in Runs :
        run[r].phase = "genThrew" => run[r].attempt = GEN_MAX_RETRIES

\* The batch of a position of a list of images, positions counted from 0.
BatchOf(pos) == pos \div BATCH_SIZE

\* processImagesWithRateLimiting: the requests of a batch are issued
\* together, and none before every request of the batches before it has
\* completed and a sleep has followed each of those batches.
BatchesInTurn ==
    \A p \in 0..(bt.n - 1) :
        TaskOf(p) # "none" =>
            /\ \A q \in 0..(bt.n - 1) :
                /\ BatchOf(q) = BatchOf(p) => TaskOf(q) # "none"
                /\ BatchOf(q) < BatchOf(p) =>
                        TaskOf(q) \in {"fulfilled", "rejected"}
            /\ bt.sleeps >= BatchOf(p)

\* The pages of run r at the positions k (from 1) of pagesToGenerate for
\* which the image model has been asked.
RequestedPositions(r) ==
    {k \in 1..Len(run[r].pagesToGenerate) :
        run[r].pagesToGenerate[k] + 1 \in run[r].requested}

C9_ContentPolicyRetriedOnce ==
    \A idx \in 1..Len(st.task) :
        LET t == st.task[idx]
        IN  /\ t.requests <= 2
            /\ t.requests = 2 <=> (t.first = "status400")
            /\ (t.state = "resolved" /\ t.first = "status400") =>
                    t.url = IF t.retry = "url" THEN "simplified"
                                               ELSE "failed"
            /\ (t.state = "resolved"
                    /\ t.first \notin {"none", "url", "status400"}) =>
                    t.url = "failed" /\ t.retry = "none"

C9_Witness ==
    \E idx, other \in 1..Len(st.task) :
        /\ st.pc = "done"
        /\ st.task[idx].first = "status400"
        /\ st.task[idx].retry = "url"
        /\ st.imageUrls[idx] = "simplified"
        /\ st.task[other].first = "status400"
        /\ st.task[other].retry = "error"
        /\ st.imageUrls[other] = "failed"

\* C10: the result of trimming a prompt longer than the budget is no longer
\* than the budget.
C10_TrimmedWithinBudget ==
    (tp.pc = "done" /\ Len(tp.prompt) > tp.maxLength) =>
        Len(tp.result) <= tp.maxLength

\* The text made of the sections idxs of sections, each followed by "\n\n".
RECURSIVE Joined(_, _)
Joined(idxs, sections) ==
    IF idxs = <<>> THEN <<>>
    ELSE sections[Head(idxs)] \o <<NL, NL>> \o Joined(Tail(idxs), sections)

\* The room taken, when the priority section p is considered, by the first
\* section and the priority sections retained before p.
UsedBefore(p, sections) ==
    LET before == SelectSeq(tp.retained,
                    LAMBDA q : q = 1 \/ (q < p /\ Includes(sections[q], "K")))
    IN  Len(Joined(before, sections))

\* C11: the result of trimming an over-long prompt is made of the first
\* section and of retained sections; and when it retains a section without
\* a priority keyword, every section with a priority keyword that fitted in
\* the budget left by the first section and the priority sections before it
\* is retained as well.
C11_PrioritySectionsTakePrecedence ==
    (tp.pc = "done" /\ Len(tp.prompt) > tp.maxLength) =>
        LET sections == Split(tp.prompt)
            kept == SetOf(tp.retained)
        IN  /\ tp.retained # <<>> /\ tp.retained[1] = 1
            /\ tp.result = Trim(Joined(tp.retained, sections))
            /\ (\E j \in kept : j # 1 /\ ~Includes(sections[j], "K")) =>
                \A p \in 2..Len(sections) :
                    ( /\ Includes(sections[p], "K")
                      /\ UsedBefore(p, sections) + Len(sections[p]) + 2
                            <= tp.maxLength )
                    => p \in kept

\* An over-long prompt whose trimming retains the first section, a later
\* priority section and an earlier section without a keyword, and drops a
\* section.
C11_Witness ==
    /\ tp.pc = "done"
    /\ Len(tp.prompt) > tp.maxLength
    /\ LET sections == Split(tp.prompt)
           kept == SetOf(tp.retained)
       IN  \E j, p \in kept :
            /\ 1 < j /\ j < p
            /\ ~Includes(sections[j], "K")
            /\ sections[j] # <<>>
            /\ Includes(sections[p], "K")
            /\ kept # 1..Len(sections)

\* C12: sanitizing a sanitized text gives that same text.
C12_SanitizeIdempotent == sz.pc = "twice" => sz.twice = sz.once

\* C13: a story document returned with success has as many pages as the
\* handler is configured to ask for: STORY_PAGE_COUNT in api/story/generate,
\* MAX_STORY_PAGES story pages in api/generate-story.
C13_ReturnedPagesEqualConfigured ==
    /\ (sg.pc = "done" /\ sg.status = 200) =>
            sg.returned.pages = STORY_PAGE_COUNT
    /\ (st.pc = "done" /\ st.status = 200) =>
            st.text.pages = MAX_STORY_PAGES

\* C14: when the text model's answer lacks a title, a cover description or
\* a pages array, the story request ends with status 500 and returns no
\* story document, in api/story/generate and in api/generate-story alike.
C14_InvalidStoryFormatFails ==
    /\ (sg.pc = "done" /\ sg.text.kind = "object"
            /\ ~ValidStoryFormat(sg.text)) =>
            (sg.status = 500 /\ sg.returned = NoText)
    /\ (st.pc = "done" /\ st.text.kind = "object"
            /\ ~ValidStoryFormat(st.text)) =>
            st.status = 500

C16_PageImagesOnePerPage ==
    \A r \in Runs :
        (run[r].pc = "done" /\ run[r].response.status = 200) =>
            Len(run[r].response.pageImages) = total

\* C17: in every successful response of api/generate-story,
\* _debug.imagesGenerated is at most the number of pages of the response,
\* each of which carries one image entry.
C17_ImagesGeneratedWithinEntries ==
    (st.pc = "done" /\ st.status = 200) =>
        st.imagesGenerated <= st.totalPages

\* A response whose images, the cover's and the page's, were both generated.
C17_Witness ==
    /\ st.pc = "done"
    /\ st.status = 200
    /\ st.imagesGenerated = MAX_STORY_PAGES + 1
    /\ st.totalPages = st.imagesGenerated

\* C18: when an image was generated but its download or the write of its
\* file failed, the image handler answers with success and a warning
\* field.
C18_DownloadFailureSuccessWithWarning ==
    (ig.pc = "done" /\ \E img \in Images : ig.url[img] /\ ~ig.path[img]) =>
        (ig.status = 200 /\ ig.warning)

FallbackTexts == {"notAvailableText", "errorText"}

\* C19 as stated: the document has one PDF page per story page, and a page
\* whose image could not be fetched or embedded shows fallback text.
C19_FallbackTextOnImageFailure ==
    /\ pdf.pc = "done" => Len(pdf.doc) = pdf.n
    /\ \A k \in 1..Len(pdf.doc) :
        pdf.doc[k].cannot => pdf.doc[k].shows \in FallbackTexts

\* C19: the document has one PDF page per story page, and a page whose
\* image could not be fetched or embedded shows fallback text or, when its
\* imageUrl is a local path, the placeholder image fetched in its place.
C19_FallbackTextOrPlaceholderImage ==
    /\ pdf.pc = "done" => Len(pdf.doc) = pdf.n
    /\ \A k \in 1..Len(pdf.doc) :
        pdf.doc[k].cannot =>
            \/ pdf.doc[k].shows \in FallbackTexts
            \/ /\ pdf.doc[k].imageUrl = "local"
               /\ pdf.doc[k].shows = "placeholderImage"

\* A document of two pages whose second page's image could not be had: it
\* shows fallback text.
C19_Witness ==
    /\ pdf.pc = "done"
    /\ pdf.n = 2
    /\ ~pdf.doc[1].cannot
    /\ pdf.doc[1].shows = "image"
    /\ pdf.doc[2].cannot
    /\ pdf.doc[2].shows \in FallbackTexts

\* What the stream has emitted is the list's first labels, in list order,
\* one for each of the timer's ticks but the closing one.
EmittedInOrder ==
    /\ Len(sse.emitted) = sse.counter
    /\ sse.counter <= Len(STAGES)
    /\ sse.emitted = SubSeq(STAGES, 1, sse.counter)
    /\ sse.ticks \in {sse.counter, sse.counter + 1}
    /\ sse.ticks = sse.counter + 1 =>
            (sse.closed /\ sse.counter = Len(STAGES))

\* C20 as stated: the stream emits the stage labels in list order, one per
\* tick, and when it has closed every label of the list has been emitted
\* once.
C20_ClosedAfterAllStages ==
    /\ EmittedInOrder
    /\ sse.closed => sse.emitted = STAGES

\* C20: the stream emits the stage labels in list order, one per tick, and
\* when it has closed, every label of the list has been emitted once unless
\* the client disconnected, which closes the stream at once.
C20_ClosedAfterAllStagesUnlessAborted ==
    /\ EmittedInOrder
    /\ (sse.closed /\ ~sse.aborted) =>
            (sse.emitted = STAGES /\ sse.ticks = Len(STAGES) + 1)
    /\ sse.aborted => (sse.closed /\ ~sse.interval)

\* The stream closed by its timer after the last label.
C20_Witness ==
    /\ endpoint = "status"
    /\ sse.closed
    /\ ~sse.aborted
    /\ sse.emitted = STAGES

\* C21: once the client has disconnected from the status stream, and in
\* the step of the disconnect itself, no stage label is emitted: the
\* interval timer is cleared.
C21_NothingEmittedAfterDisconnect ==
    [][(sse.aborted \/ sse'.aborted) =>
            (sse'.emitted = sse.emitted /\ ~sse'.interval)]_vars

\* The client disconnected between two labels.
C21_Witness ==
    /\ sse.aborted
    /\ sse.counter > 0
    /\ sse.counter < Len(STAGES)
    /\ ~sse.interval

\* C22: every endpoint that derives a story folder maps the same title to
\* the same folder name, lower-case and with its non-alphanumeric
\* characters replaced.
C22_SameTitleSameFolder ==
    /\ fd.pc # "idle" => fd.saveStory = fd.imageGenerate
    /\ fd.pc = "done" => fd.again = fd.saveStory

\* C23: a prompt that is within the character budget when trimmed is within
\* it when sent, that is after sanitizePrompt has been applied to it.
C23_SentPromptWithinBudget ==
    (pm.pc = "sent" /\ Len(pm.trimmed) <= pm.maxLength) =>
        Len(pm.sent) <= pm.maxLength

\* C24: in every progress record on disk no page number is listed both in
\* pagesGenerated and in failedPages.
C24_NoPageBothGeneratedAndFailed ==
    SetOf(disk.pagesGenerated) \cap SetOf(disk.failedPages) = {}

\* C25: once the progress record on disk records the cover as generated,
\* every later version of the record does.
C25_CoverGeneratedStays ==
    [][(disk.present /\ disk.coverGenerated) => disk'.coverGenerated]_vars

\* C26: before its first rate-limit pause a run issues at most BATCH_SIZE
\* image-model requests.  The images requested are counted, which is at
\* most the number of requests, a retry being one more request for the same
\* image.
C26_AtMostBatchSizeBeforeFirstPause ==
    \A r \in Runs :
        run[r].pauses = 0 => Cardinality(run[r].requested) <= BATCH_SIZE

C28_ReturnedPathsWereSaved ==
    (endpoint = "imageGenerate" /\ ig.pc = "done" /\ ig.status = 200) =>
        \A img \in ReturnedPaths : ig.url[img] /\ ig.path[img]

\* C29: a retry helper makes at most its cap of calls; it returns at the
\* first successful call; it has waited once after each failed attempt but
\* the last; it throws only when the cap has been reached with no success.
C29_RetryHelperWithinCap ==
    rh.pc # "idle" =>
        /\ rh.calls = rh.attempt
        /\ rh.calls <= MaxRetries(rh.helper)
        /\ rh.successes = (IF rh.pc = "returned" THEN 1 ELSE 0)
        /\ rh.pc = "threw" => rh.calls = MaxRetries(rh.helper)
        /\ rh.pc = "loop" => Len(rh.delays) = rh.calls
        /\ rh.pc \in {"wait", "returned", "threw"} =>
                Len(rh.delays) = rh.calls - 1
        /\ rh.pc = "wait" => rh.calls < MaxRetries(rh.helper)

\* generateImageWithRetry has thrown after its two calls and one wait;
\* downloadImageWithRetry has returned at its third call.
C29_Witness ==
    \/ /\ rh.helper = "generateImageWithRetry"
       /\ rh.pc = "threw"
       /\ rh.calls = GEN_MAX_RETRIES
       /\ Len(rh.delays) = 1
    \/ /\ rh.helper = "downloadImageWithRetry"
       /\ rh.pc = "returned"
       /\ rh.calls = DOWNLOAD_MAX_RETRIES

\* C30: controller.close() is called at most once on a status stream: no
\* call of it finds the stream closed already.
C30_ControllerClosedAtMostOnce == ~sse.closeThrew

====
